---- MODULE Spec2Model ----
(***************************************************************************)
(* Model of src-tauri/src/core/timer.rs: the Timer singleton that keeps    *)
(* the delay_timer cron jobs in step with the profiles' update intervals.  *)
(*                                                                         *)
(* Option<T> is modelled as a sequence: <<>> is None, <<v>> is Some(v).     *)
(* A HashMap is a function whose DOMAIN is its key set.                    *)
(* Every profile item carries a uid (gen_map unwraps it).                  *)
(***************************************************************************)
EXTENDS Integers, Sequences, FiniteSets, TLC

(* ------------------------------ bounds -------------------------------- *)

\* largest update_interval (minutes) a profile is given
MaxInterval == 2
\* number of init()/refresh() calls made over a run
MaxCalls == 3
\* number of edits of the profile list over a concurrent run
MaxEdits == 2
\* number of edits of the profile list over a sequential run
MaxSeqEdits == 1
\* number of edits of the profile list over a run with job executions
MaxRunEdits == 1
\* number of executions of job bodies over a run
MaxRuns == 2

\* seconds in a minute: the factor of timer.rs line 58
SecsPerMin == 60
\* first task id: timer.rs line 34
FirstTaskID == 1

Uids == {"A", "B"}
\* the threads calls are made on, in the order a new call takes an idle one
ThreadOrder == <<"t1", "t2">>
Threads == {ThreadOrder[i] : i \in DOMAIN ThreadOrder}
NoThread == "none"

\* the `updated` stamp profiles carry, and the clock values init() may read
UpdatedAt == SecsPerMin
Times == {0} \cup UNION {{UpdatedAt + i * SecsPerMin - 1, UpdatedAt + i * SecsPerMin} :
                            i \in 1..MaxInterval}
\* the clock value of the concurrent runs: one minute after `updated`
CoreTimes == {UpdatedAt + SecsPerMin}

None == <<>>
Some(v) == <<v>>
IsSome(o) == Len(o) = 1
Unwrap(o) == o[1]

EmptyMap == <<>>

\* PrfOption values: update_interval is None or Some(0..MaxInterval)
PrfOptions == {[update_interval |-> None]} \cup
              {[update_interval |-> Some(i)] : i \in 0..MaxInterval}

\* PrfItem values (the fields the timer reads, keyed by uid in `items`)
PrfItems == [option : {None} \cup {Some(o) : o \in PrfOptions},
             updated : {None, Some(UpdatedAt)}]

\* the items of the concurrent runs: an interval of 1..MaxInterval and an `updated`
\* stamp (there an unscheduled profile is an absent one; the None and zero cases
\* are the sequential runs')
CoreItems == {it \in PrfItems : /\ IsSome(it.updated)
                                /\ IsSome(it.option)
                                /\ IsSome(Unwrap(it.option).update_interval)
                                /\ Unwrap(Unwrap(it.option).update_interval) > 0}

\* the profile lists over the items S: uid -> item, for the uids present
Configs(S) == UNION {[D -> S] : D \in SUBSET Uids}

VARIABLES
    items,          \* Config::profiles().latest().get_items(): uid -> PrfItem
    delay_timer,    \* Timer.delay_timer: the registered jobs [tid, uid, minutes]
    timer_map,      \* Timer.timer_map: uid -> <<tid, interval>>
    timer_count,    \* Timer.timer_count
    initialized,    \* Timer.initialized
    lock,           \* holder of each of the four mutexes
    pc,             \* where each thread is
    call,           \* the public call each thread is in: "none", "refresh", "init"
    new_map,        \* gen_diff's local new_map, per thread
    diff_map,       \* the diff map a thread computed and has not applied yet
    cur_timestamp,  \* init's local cur_timestamp
    calls,          \* number of calls made so far
    edits,          \* number of edits made so far
    running,        \* the job bodies executing: [tid, uid, step]
    runs,           \* number of executions started so far
    \* history variables: they record what happened and steer nothing
    snap,           \* the profile list a thread's gen_map read
    alone,          \* the thread's refresh has had no other refresh beside it
    settled,        \* a refresh running alone returned and no edit came since
    since_settled,  \* refreshes returned since `settled` (counted up to 2)
    issued,         \* the task ids the Add mutations were given
    n_adds,         \* the number of Add mutations generated
    adapter_failed, \* some add_task/remove_task call returned Err
    init_passes,    \* init() calls that found `initialized` false
    init_skips,     \* init() calls that found `initialized` set and returned
    advanced,       \* the task ids init's scan called advance_task on
    caught_up,      \* a refresh that read the profile list as it is now has returned
    batch,          \* the diff map as gen_diff returned it, per thread
    failed,         \* the uids whose mutation had an adapter call return Err, per thread
    add_failed,     \* some add_task call returned Err
    profile_oks,    \* update_profile calls of job bodies that returned Ok
    profile_errs,   \* update_profile calls of job bodies that returned Err
    config_calls    \* update_config calls job bodies made

state == <<items, delay_timer, timer_map, timer_count, initialized, lock, pc, call,
           new_map, diff_map, cur_timestamp, calls, edits>>
hist == <<snap, alone, settled, since_settled, issued, n_adds, adapter_failed,
          init_passes, init_skips, advanced>>
exec == <<running, runs, profile_oks, profile_errs, config_calls>>
aux == <<batch, failed, add_failed>>
vars == <<state, hist, exec, caught_up, aux>>

LockNames == {"initialized", "timer_map", "delay_timer", "timer_count"}

(* ------------------------------ helpers ------------------------------- *)

Put(m, k, v) == [x \in DOMAIN m \cup {k} |-> IF x = k THEN v ELSE m[x]]
Remove(m, k) == [x \in DOMAIN m \ {k} |-> m[x]]
Get(m, k, default) == IF k \in DOMAIN m THEN m[k] ELSE default

\* the orders a HashMap may iterate the keys S in
Orders(S) == {f \in [1..Cardinality(S) -> S] : \A i, j \in DOMAIN f : f[i] = f[j] => i = j}

Free(l) == lock[l] = NoThread

\* enum DiffFlag
Del(tid) == <<"Del", tid>>
Add(tid, val) == <<"Add", tid, val>>
Mod(tid, val) == <<"Mod", tid, val>>

(* --------------------------- pure functions --------------------------- *)

\* gen_map without the `interval > 0` test of line 121
gen_map_keep_zero(its) ==
    LET interval(u) ==
            LET option == Unwrap(its[u].option)
            IN IF IsSome(option.update_interval) THEN Unwrap(option.update_interval) ELSE 0
        keep == {u \in DOMAIN its : IsSome(its[u].option)}
    IN [u \in keep |-> interval(u)]

\* gen_map: the uid -> update_interval map of the profiles to schedule
gen_map(its) ==
    LET interval(u) ==
            LET option == Unwrap(its[u].option)
            IN IF IsSome(option.update_interval) THEN Unwrap(option.update_interval) ELSE 0
        keep == {u \in DOMAIN its : IsSome(its[u].option) /\ interval(u) > 0}
    IN [u \in keep |-> interval(u)]

\* gen_diff's first loop with Mod carrying the old interval
gen_diff_cur_old_val(cur_map, nmap) ==
    LET new_val(uid) == Get(nmap, uid, 0)
        changed == {uid \in DOMAIN cur_map :
                        new_val(uid) = 0 \/ new_val(uid) # cur_map[uid][2]}
    IN [uid \in changed |->
            IF new_val(uid) = 0 THEN Del(cur_map[uid][1])
            ELSE Mod(cur_map[uid][1], cur_map[uid][2])]

\* gen_diff's first loop with `else` in place of `else if new_val != val`
gen_diff_cur_no_equal_check(cur_map, nmap) ==
    LET new_val(uid) == Get(nmap, uid, 0)
    IN [uid \in DOMAIN cur_map |->
            IF new_val(uid) = 0 THEN Del(cur_map[uid][1])
            ELSE Mod(cur_map[uid][1], new_val(uid))]

\* gen_diff, first loop: Del and Mod for the uids of cur_map
gen_diff_cur(cur_map, nmap) ==
    LET new_val(uid) == Get(nmap, uid, 0)
        changed == {uid \in DOMAIN cur_map :
                        new_val(uid) = 0 \/ new_val(uid) # cur_map[uid][2]}
    IN [uid \in changed |->
            IF new_val(uid) = 0 THEN Del(cur_map[uid][1])
            ELSE Mod(cur_map[uid][1], new_val(uid))]

\* gen_diff's second loop without the `cur_map.get(uid).is_none()` test
gen_diff_new_all(cur_map, nmap) == DOMAIN nmap

\* gen_diff's second loop adding also the uids whose entry has no job registered
gen_diff_new_heal(cur_map, nmap) ==
    {uid \in DOMAIN nmap :
        \/ uid \notin DOMAIN cur_map
        \/ \A j \in delay_timer : j.tid # cur_map[uid][1]}

\* the uids gen_diff's second loop adds
gen_diff_new(cur_map, nmap) == {uid \in DOMAIN nmap : uid \notin DOMAIN cur_map}

\* gen_diff's second loop with the counter read once, before the loop
gen_diff_add_same_id(diff, nmap, count, ord) ==
    LET added == {ord[i] : i \in DOMAIN ord}
    IN [uid \in DOMAIN diff \cup added |->
            IF uid \in added THEN Add(count, nmap[uid]) ELSE diff[uid]]

\* gen_diff, second loop: Add for the uids of new_map missing in cur_map, visited
\* in the order ord, each taking the counter's value and incrementing it
gen_diff_add(diff, nmap, count, ord) ==
    LET idx(uid) == CHOOSE i \in DOMAIN ord : ord[i] = uid
        added == {ord[i] : i \in DOMAIN ord}
    IN [uid \in DOMAIN diff \cup added |->
            IF uid \in added THEN Add(count + idx(uid) - 1, nmap[uid]) ELSE diff[uid]]

\* the uids a diff map holds a Del, an Add, a Mod for
DelUids(diff) == {uid \in DOMAIN diff : diff[uid][1] = "Del"}
AddUids(diff) == {uid \in DOMAIN diff : diff[uid][1] = "Add"}
ModUids(diff) == {uid \in DOMAIN diff : diff[uid][1] = "Mod"}

\* delay_timer.remove_task(tid), ok: the Result it returned
remove_task(dt, tid, ok) == IF ok THEN {j \in dt : j.tid # tid} ELSE dt

\* Timer::add_task: build the task for uid and hand it to delay_timer.add_task
add_task(dt, uid, tid, minutes, ok) ==
    IF ok THEN dt \cup {[tid |-> tid, uid |-> uid, minutes |-> minutes]} ELSE dt

\* init's filter with `>` in place of `>=`
overdue_strict(its, tmap, now) ==
    LET due(u) ==
            /\ IsSome(its[u].option)
            /\ IsSome(Unwrap(its[u].option).update_interval)
            /\ IsSome(its[u].updated)
            /\ LET interval == Unwrap(Unwrap(its[u].option).update_interval) * SecsPerMin
                   updated == Unwrap(its[u].updated)
               IN interval > 0 /\ now - updated > interval
    IN {tmap[u][1] : u \in {x \in DOMAIN its : due(x) /\ x \in DOMAIN tmap}}

\* init's filter_map and for_each: the task ids to advance
overdue(its, tmap, now) ==
    LET due(u) ==
            /\ IsSome(its[u].option)
            /\ IsSome(Unwrap(its[u].option).update_interval)
            /\ IsSome(its[u].updated)
            /\ LET interval == Unwrap(Unwrap(its[u].option).update_interval) * SecsPerMin
                   updated == Unwrap(its[u].updated)
               IN interval > 0 /\ now - updated >= interval
    IN {tmap[u][1] : u \in {x \in DOMAIN its : due(x) /\ x \in DOMAIN tmap}}

(* -------------------------------- Init -------------------------------- *)

InitWith(S) ==
    /\ items \in Configs(S)
    /\ delay_timer = {}
    /\ timer_map = EmptyMap
    /\ timer_count = FirstTaskID
    /\ initialized = FALSE
    /\ lock = [l \in LockNames |-> NoThread]
    /\ pc = [t \in Threads |-> "idle"]
    /\ call = [t \in Threads |-> "none"]
    /\ new_map = [t \in Threads |-> EmptyMap]
    /\ diff_map = [t \in Threads |-> EmptyMap]
    /\ cur_timestamp = 0
    /\ calls = 0
    /\ edits = 0
    /\ snap = [t \in Threads |-> EmptyMap]
    /\ alone = [t \in Threads |-> FALSE]
    /\ settled = FALSE
    /\ since_settled = 0
    /\ issued = {}
    /\ n_adds = 0
    /\ adapter_failed = FALSE
    /\ init_passes = 0
    /\ init_skips = 0
    /\ advanced = {}
    /\ running = {}
    /\ runs = 0
    /\ caught_up = FALSE
    /\ batch = [t \in Threads |-> EmptyMap]
    /\ failed = [t \in Threads |-> {}]
    /\ add_failed = FALSE
    /\ profile_oks = 0
    /\ profile_errs = 0
    /\ config_calls = 0

Init == InitWith(CoreItems)
InitSeq == InitWith(PrfItems)

(* ------------------------------ actions ------------------------------- *)

RefreshPcs == {"gen_diff", "gen_diff_count", "refresh_lock_map", "refresh_lock_timer", "apply"}
InRefresh(t) == pc[t] \in RefreshPcs

\* thread t enters refresh(): it is alone when no other thread is inside refresh()
EnterRefresh(t) ==
    alone' = [x \in Threads |-> x = t /\ \A o \in Threads \ {t} : ~InRefresh(o)]

\* the configuration store replaces, adds or drops the profile uid
EditProfile(uid, Choices, Budget) ==
    /\ edits < Budget
    /\ edits' = edits + 1
    /\ \/ \E it \in Choices :
            /\ Get(items, uid, None) # it
            /\ items' = Put(items, uid, it)
       \/ /\ uid \in DOMAIN items
          /\ items' = Remove(items, uid)
    /\ settled' = FALSE
    /\ since_settled' = 0
    /\ UNCHANGED <<delay_timer, timer_map, timer_count, initialized, lock, pc, call,
                   new_map, diff_map, cur_timestamp, calls>>
    /\ UNCHANGED <<snap, alone, issued, n_adds, adapter_failed, init_passes, init_skips, advanced>>
    /\ UNCHANGED exec
    /\ caught_up' = FALSE
    /\ UNCHANGED aux

\* a new call runs on the first idle thread
CanStart(t) ==
    \E i \in DOMAIN ThreadOrder :
        /\ ThreadOrder[i] = t
        /\ pc[t] = "idle"
        /\ \A j \in 1..(i - 1) : pc[ThreadOrder[j]] # "idle"

\* a caller enters Timer::refresh
CallRefresh(t) ==
    /\ CanStart(t)
    /\ calls < MaxCalls
    /\ calls' = calls + 1
    /\ pc' = [pc EXCEPT ![t] = "gen_diff"]
    /\ call' = [call EXCEPT ![t] = "refresh"]
    /\ EnterRefresh(t)
    /\ UNCHANGED <<items, delay_timer, timer_map, timer_count, initialized, lock,
                   new_map, diff_map, cur_timestamp, edits>>
    /\ UNCHANGED <<snap, settled, since_settled, issued, n_adds, adapter_failed,
                   init_passes, init_skips, advanced>>
    /\ UNCHANGED exec
    /\ UNCHANGED caught_up
    /\ UNCHANGED aux

\* a caller enters Timer::init
CallInit(t) ==
    /\ CanStart(t)
    /\ calls < MaxCalls
    /\ calls' = calls + 1
    /\ pc' = [pc EXCEPT ![t] = "init"]
    /\ call' = [call EXCEPT ![t] = "init"]
    /\ UNCHANGED <<items, delay_timer, timer_map, timer_count, initialized, lock,
                   new_map, diff_map, cur_timestamp, edits>>
    /\ UNCHANGED hist
    /\ UNCHANGED exec
    /\ UNCHANGED caught_up
    /\ UNCHANGED aux

\* init with the `initialized` guard dropped right after the test of line 42
InitCheck_unlocked(t) ==
    /\ pc[t] = "init"
    /\ \/ /\ initialized
          /\ pc' = [pc EXCEPT ![t] = "idle"]
          /\ call' = [call EXCEPT ![t] = "none"]
          /\ init_skips' = init_skips + 1
          /\ UNCHANGED <<alone, init_passes>>
       \/ /\ ~initialized
          /\ pc' = [pc EXCEPT ![t] = "gen_diff"]
          /\ EnterRefresh(t)
          /\ init_passes' = init_passes + 1
          /\ UNCHANGED <<call, init_skips>>
    /\ UNCHANGED <<items, delay_timer, timer_map, timer_count, initialized, lock,
                   new_map, diff_map, cur_timestamp, calls, edits>>
    /\ UNCHANGED <<snap, settled, since_settled, issued, n_adds, adapter_failed, advanced>>
    /\ UNCHANGED exec
    /\ UNCHANGED caught_up
    /\ UNCHANGED aux

\* init, lines 41-48: lock `initialized`; return if it is set, else call refresh
\* with the lock held
InitCheck(t) ==
    /\ pc[t] = "init"
    /\ Free("initialized")
    /\ \/ /\ initialized
          /\ pc' = [pc EXCEPT ![t] = "idle"]
          /\ call' = [call EXCEPT ![t] = "none"]
          /\ init_skips' = init_skips + 1
          /\ UNCHANGED <<lock, alone, init_passes>>
       \/ /\ ~initialized
          /\ lock' = [lock EXCEPT !["initialized"] = t]
          /\ pc' = [pc EXCEPT ![t] = "gen_diff"]
          /\ EnterRefresh(t)
          /\ init_passes' = init_passes + 1
          /\ UNCHANGED <<call, init_skips>>
    /\ UNCHANGED <<items, delay_timer, timer_map, timer_count, initialized,
                   new_map, diff_map, cur_timestamp, calls, edits>>
    /\ UNCHANGED <<snap, settled, since_settled, issued, n_adds, adapter_failed, advanced>>
    /\ UNCHANGED exec
    /\ UNCHANGED caught_up
    /\ UNCHANGED aux

\* gen_diff, lines 133-148: lock timer_map, read the profiles, first loop
GenDiffCur(t) ==
    /\ pc[t] = "gen_diff"
    /\ Free("timer_map")
    /\ lock' = [lock EXCEPT !["timer_map"] = t]
    /\ new_map' = [new_map EXCEPT ![t] = gen_map(items)]
    /\ snap' = [snap EXCEPT ![t] = items]
    /\ diff_map' = [diff_map EXCEPT ![t] = gen_diff_cur(timer_map, gen_map(items))]
    /\ pc' = [pc EXCEPT ![t] = "gen_diff_count"]
    /\ UNCHANGED <<items, delay_timer, timer_map, timer_count, initialized, call,
                   cur_timestamp, calls, edits>>
    /\ UNCHANGED <<alone, settled, since_settled, issued, n_adds, adapter_failed,
                   init_passes, init_skips, advanced>>
    /\ UNCHANGED exec
    /\ UNCHANGED caught_up
    /\ UNCHANGED aux

\* gen_diff with `*count += 1` after the `if`, run for every uid of new_map
GenDiffAdd_count_all(t) ==
    /\ pc[t] = "gen_diff_count"
    /\ Free("timer_count")
    /\ \E ord \in Orders(gen_diff_new(timer_map, new_map[t])) :
          /\ diff_map' = [diff_map EXCEPT
                            ![t] = gen_diff_add(diff_map[t], new_map[t], timer_count, ord)]
          /\ timer_count' = timer_count + Cardinality(DOMAIN new_map[t])
          /\ issued' = issued \cup {diff_map'[t][uid][2] : uid \in AddUids(diff_map'[t])}
          /\ n_adds' = n_adds + Cardinality(AddUids(diff_map'[t]))
    /\ lock' = [lock EXCEPT !["timer_map"] = NoThread]
    /\ new_map' = [new_map EXCEPT ![t] = EmptyMap]
    /\ pc' = [pc EXCEPT ![t] = "refresh_lock_map"]
    /\ UNCHANGED <<items, delay_timer, timer_map, initialized, call,
                   cur_timestamp, calls, edits>>
    /\ UNCHANGED <<snap, alone, settled, since_settled, adapter_failed, init_passes, init_skips, advanced>>
    /\ UNCHANGED exec
    /\ UNCHANGED caught_up
    /\ batch' = [batch EXCEPT ![t] = diff_map'[t]]
    /\ UNCHANGED <<failed, add_failed>>

\* gen_diff with its timer_map guard still held when refresh goes on to line 87
GenDiffAdd_keeps_guard(t) ==
    /\ pc[t] = "gen_diff_count"
    /\ Free("timer_count")
    /\ \E ord \in Orders(gen_diff_new(timer_map, new_map[t])) :
          /\ diff_map' = [diff_map EXCEPT
                            ![t] = gen_diff_add(diff_map[t], new_map[t], timer_count, ord)]
          /\ timer_count' = timer_count + Len(ord)
          /\ issued' = issued \cup {diff_map'[t][uid][2] : uid \in AddUids(diff_map'[t])}
          /\ n_adds' = n_adds + Cardinality(AddUids(diff_map'[t]))
    /\ UNCHANGED lock
    /\ new_map' = [new_map EXCEPT ![t] = EmptyMap]
    /\ pc' = [pc EXCEPT ![t] = "refresh_lock_map"]
    /\ UNCHANGED <<items, delay_timer, timer_map, initialized, call,
                   cur_timestamp, calls, edits>>
    /\ UNCHANGED <<snap, alone, settled, since_settled, adapter_failed, init_passes, init_skips, advanced>>
    /\ UNCHANGED exec
    /\ UNCHANGED caught_up
    /\ batch' = [batch EXCEPT ![t] = diff_map'[t]]
    /\ UNCHANGED <<failed, add_failed>>

\* gen_diff, lines 150-161: lock timer_count, second loop, return (both guards drop)
GenDiffAdd(t) ==
    /\ pc[t] = "gen_diff_count"
    /\ Free("timer_count")
    /\ \E ord \in Orders(gen_diff_new(timer_map, new_map[t])) :
          /\ diff_map' = [diff_map EXCEPT
                            ![t] = gen_diff_add(diff_map[t], new_map[t], timer_count, ord)]
          /\ timer_count' = timer_count + Len(ord)
          /\ issued' = issued \cup {diff_map'[t][uid][2] : uid \in AddUids(diff_map'[t])}
          /\ n_adds' = n_adds + Cardinality(AddUids(diff_map'[t]))
    /\ lock' = [lock EXCEPT !["timer_map"] = NoThread]
    /\ new_map' = [new_map EXCEPT ![t] = EmptyMap]
    /\ pc' = [pc EXCEPT ![t] = "refresh_lock_map"]
    /\ UNCHANGED <<items, delay_timer, timer_map, initialized, call,
                   cur_timestamp, calls, edits>>
    /\ UNCHANGED <<snap, alone, settled, since_settled, adapter_failed, init_passes, init_skips, advanced>>
    /\ UNCHANGED exec
    /\ UNCHANGED caught_up
    /\ batch' = [batch EXCEPT ![t] = diff_map'[t]]
    /\ UNCHANGED <<failed, add_failed>>

\* refresh, line 87
RefreshLockMap(t) ==
    /\ pc[t] = "refresh_lock_map"
    /\ Free("timer_map")
    /\ lock' = [lock EXCEPT !["timer_map"] = t]
    /\ pc' = [pc EXCEPT ![t] = "refresh_lock_timer"]
    /\ UNCHANGED <<items, delay_timer, timer_map, timer_count, initialized, call,
                   new_map, diff_map, cur_timestamp, calls, edits>>
    /\ UNCHANGED hist
    /\ UNCHANGED exec
    /\ UNCHANGED caught_up
    /\ UNCHANGED aux

\* refresh, line 88
RefreshLockTimer(t) ==
    /\ pc[t] = "refresh_lock_timer"
    /\ Free("delay_timer")
    /\ lock' = [lock EXCEPT !["delay_timer"] = t]
    /\ pc' = [pc EXCEPT ![t] = "apply"]
    /\ UNCHANGED <<items, delay_timer, timer_map, timer_count, initialized, call,
                   new_map, diff_map, cur_timestamp, calls, edits>>
    /\ UNCHANGED hist
    /\ UNCHANGED exec
    /\ UNCHANGED caught_up
    /\ UNCHANGED aux

\* refresh, lines 91-105: the effect of one (uid, diff) on timer_map
apply_map(tmap, uid, diff) ==
    IF diff[1] = "Del" THEN Remove(tmap, uid) ELSE Put(tmap, uid, <<diff[2], diff[3]>>)

\* the loop's adapter calls with the Mod arm leaving the registered job alone
apply_timer_mod_keeps_job(dt, uid, diff, rm, ad) ==
    IF diff[1] = "Del" THEN remove_task(dt, diff[2], rm)
    ELSE IF diff[1] = "Add" THEN add_task(dt, uid, diff[2], diff[3], ad)
    ELSE dt

\* refresh, lines 91-105: the effect of one (uid, diff) on delay_timer; rm and ad
\* are the Results of remove_task and add_task
apply_timer(dt, uid, diff, rm, ad) ==
    IF diff[1] = "Del" THEN remove_task(dt, diff[2], rm)
    ELSE IF diff[1] = "Add" THEN add_task(dt, uid, diff[2], diff[3], ad)
    ELSE add_task(remove_task(dt, diff[2], rm), uid, diff[2], diff[3], ad)

\* the adapter calls one (uid, diff) makes
CallsRemove(diff) == diff[1] \in {"Del", "Mod"}
CallsAdd(diff) == diff[1] \in {"Add", "Mod"}

\* refresh with `?` in place of log_err!: the first Err ends the loop
RefreshApply_abort(t, Results) ==
    /\ pc[t] = "apply"
    /\ \E uid \in DOMAIN diff_map[t] :
          LET diff == diff_map[t][uid] IN
          /\ timer_map' = apply_map(timer_map, uid, diff)
          /\ \E rm, ad \in Results :
                /\ CallsRemove(diff) \/ rm
                /\ CallsAdd(diff) \/ ad
                /\ delay_timer' = apply_timer(delay_timer, uid, diff, rm, ad)
                /\ adapter_failed' = (adapter_failed \/ ~rm \/ ~ad)
                /\ add_failed' = (add_failed \/ ~ad)
                /\ failed' = [failed EXCEPT ![t] = IF rm /\ ad THEN @ ELSE @ \cup {uid}]
                /\ diff_map' = [diff_map EXCEPT
                                  ![t] = IF rm /\ ad THEN Remove(diff_map[t], uid) ELSE EmptyMap]
    /\ UNCHANGED <<items, timer_count, initialized, lock, pc, call,
                   new_map, cur_timestamp, calls, edits>>
    /\ UNCHANGED <<snap, alone, settled, since_settled, issued, n_adds, init_passes, init_skips, advanced>>
    /\ UNCHANGED exec
    /\ UNCHANGED caught_up
    /\ UNCHANGED batch

\* refresh, lines 90-106: one turn of the loop over diff_map
RefreshApply(t, Results) ==
    /\ pc[t] = "apply"
    /\ \E uid \in DOMAIN diff_map[t] :
          LET diff == diff_map[t][uid] IN
          /\ timer_map' = apply_map(timer_map, uid, diff)
          /\ \E rm, ad \in Results :
                /\ CallsRemove(diff) \/ rm
                /\ CallsAdd(diff) \/ ad
                /\ delay_timer' = apply_timer(delay_timer, uid, diff, rm, ad)
                /\ adapter_failed' = (adapter_failed \/ ~rm \/ ~ad)
                /\ add_failed' = (add_failed \/ ~ad)
                /\ failed' = [failed EXCEPT ![t] = IF rm /\ ad THEN @ ELSE @ \cup {uid}]
          /\ diff_map' = [diff_map EXCEPT ![t] = Remove(diff_map[t], uid)]
    /\ UNCHANGED <<items, timer_count, initialized, lock, pc, call,
                   new_map, cur_timestamp, calls, edits>>
    /\ UNCHANGED <<snap, alone, settled, since_settled, issued, n_adds, init_passes, init_skips, advanced>>
    /\ UNCHANGED exec
    /\ UNCHANGED caught_up
    /\ UNCHANGED batch

\* refresh, lines 106-109: the loop is over, the guards drop, Ok(())
RefreshReturn(t) ==
    /\ pc[t] = "apply"
    /\ diff_map[t] = EmptyMap
    /\ lock' = [lock EXCEPT !["timer_map"] = NoThread, !["delay_timer"] = NoThread]
    /\ pc' = [pc EXCEPT ![t] = IF call[t] = "init" THEN "init_now" ELSE "idle"]
    /\ call' = [call EXCEPT ![t] = IF call[t] = "init" THEN "init" ELSE "none"]
    /\ settled' = (settled \/ (alone[t] /\ snap[t] = items))
    /\ since_settled' = IF settled /\ since_settled < 2 THEN since_settled + 1
                        ELSE since_settled
    /\ alone' = [alone EXCEPT ![t] = FALSE]
    /\ snap' = [snap EXCEPT ![t] = EmptyMap]
    /\ UNCHANGED <<items, delay_timer, timer_map, timer_count, initialized,
                   new_map, diff_map, cur_timestamp, calls, edits>>
    /\ UNCHANGED <<issued, n_adds, adapter_failed, init_passes, init_skips, advanced>>
    /\ UNCHANGED exec
    /\ caught_up' = (caught_up \/ snap[t] = items)
    /\ batch' = [batch EXCEPT ![t] = EmptyMap]
    /\ failed' = [failed EXCEPT ![t] = {}]
    /\ UNCHANGED add_failed

\* init, line 50
InitNow(t, Clock) ==
    /\ pc[t] = "init_now"
    /\ \E now \in Clock : cur_timestamp' = now
    /\ pc' = [pc EXCEPT ![t] = "init_lock_map"]
    /\ UNCHANGED <<items, delay_timer, timer_map, timer_count, initialized, lock, call,
                   new_map, diff_map, calls, edits>>
    /\ UNCHANGED hist
    /\ UNCHANGED exec
    /\ UNCHANGED caught_up
    /\ UNCHANGED aux

\* init, line 51
InitLockMap(t) ==
    /\ pc[t] = "init_lock_map"
    /\ Free("timer_map")
    /\ lock' = [lock EXCEPT !["timer_map"] = t]
    /\ pc' = [pc EXCEPT ![t] = "init_lock_timer"]
    /\ UNCHANGED <<items, delay_timer, timer_map, timer_count, initialized, call,
                   new_map, diff_map, cur_timestamp, calls, edits>>
    /\ UNCHANGED hist
    /\ UNCHANGED exec
    /\ UNCHANGED caught_up
    /\ UNCHANGED aux

\* init, line 52
InitLockTimer(t) ==
    /\ pc[t] = "init_lock_timer"
    /\ Free("delay_timer")
    /\ lock' = [lock EXCEPT !["delay_timer"] = t]
    /\ pc' = [pc EXCEPT ![t] = "catch_up"]
    /\ UNCHANGED <<items, delay_timer, timer_map, timer_count, initialized, call,
                   new_map, diff_map, cur_timestamp, calls, edits>>
    /\ UNCHANGED hist
    /\ UNCHANGED exec
    /\ UNCHANGED caught_up
    /\ UNCHANGED aux

\* init, lines 54-81: advance the overdue tasks, set `initialized`, drop the guards
InitCatchUp(t) ==
    /\ pc[t] = "catch_up"
    /\ advanced' = overdue(items, timer_map, cur_timestamp)
    /\ initialized' = TRUE
    /\ lock' = [l \in LockNames |-> NoThread]
    /\ pc' = [pc EXCEPT ![t] = "idle"]
    /\ call' = [call EXCEPT ![t] = "none"]
    /\ UNCHANGED <<items, delay_timer, timer_map, timer_count,
                   new_map, diff_map, cur_timestamp, calls, edits>>
    /\ UNCHANGED <<snap, alone, settled, since_settled, issued, n_adds, adapter_failed,
                   init_passes, init_skips>>
    /\ UNCHANGED exec
    /\ UNCHANGED caught_up
    /\ UNCHANGED aux

\* delay_timer fires the job j: its body starts unless one of the same task id
\* is still executing (set_maximum_parallel_runnable_num(1), line 175)
Fire(j) ==
    /\ runs < MaxRuns
    /\ j \in delay_timer
    /\ \A r \in running : r.tid # j.tid
    /\ running' = running \cup {[tid |-> j.tid, uid |-> j.uid, step |-> "update_profile"]}
    /\ runs' = runs + 1
    /\ UNCHANGED <<state, hist, caught_up, aux>>
    /\ UNCHANGED <<profile_oks, profile_errs, config_calls>>

\* async_task calling update_config whatever update_profile returned
TaskUpdateProfile_always_config(r) ==
    /\ r \in running
    /\ r.step = "update_profile"
    /\ running' = (running \ {r}) \cup {[r EXCEPT !.step = "update_config"]}
    /\ config_calls' = config_calls + 1
    /\ \/ profile_oks' = profile_oks + 1 /\ UNCHANGED profile_errs
       \/ profile_errs' = profile_errs + 1 /\ UNCHANGED profile_oks
    /\ UNCHANGED <<state, hist, caught_up, aux, runs>>

\* async_task with the job taken off the timer when update_profile returns Err
TaskUpdateProfile_unschedule(r) ==
    /\ r \in running
    /\ r.step = "update_profile"
    /\ \/ /\ running' = (running \ {r}) \cup {[r EXCEPT !.step = "update_config"]}
          /\ profile_oks' = profile_oks + 1
          /\ config_calls' = config_calls + 1
          /\ UNCHANGED <<profile_errs, delay_timer>>
       \/ /\ running' = running \ {r}
          /\ profile_errs' = profile_errs + 1
          /\ delay_timer' = remove_task(delay_timer, r.tid, TRUE)
          /\ UNCHANGED <<profile_oks, config_calls>>
    /\ UNCHANGED <<items, timer_map, timer_count, initialized, lock, pc, call,
                   new_map, diff_map, cur_timestamp, calls, edits>>
    /\ UNCHANGED <<hist, caught_up, aux, runs>>

\* async_task, lines 197-211: feat::update_profile returns; on Err the body ends
TaskUpdateProfile(r) ==
    /\ r \in running
    /\ r.step = "update_profile"
    /\ \/ /\ running' = (running \ {r}) \cup {[r EXCEPT !.step = "update_config"]}
          /\ profile_oks' = profile_oks + 1
          /\ config_calls' = config_calls + 1
          /\ UNCHANGED profile_errs
       \/ /\ running' = running \ {r}
          /\ profile_errs' = profile_errs + 1
          /\ UNCHANGED <<profile_oks, config_calls>>
    /\ UNCHANGED <<state, hist, caught_up, aux, runs>>

\* async_task, lines 199-206: update_config returns, Ok or Err; the body ends
TaskUpdateConfig(r) ==
    /\ r \in running
    /\ r.step = "update_config"
    /\ running' = running \ {r}
    /\ UNCHANGED <<profile_oks, profile_errs, config_calls>>
    /\ UNCHANGED <<state, hist, caught_up, aux, runs>>

\* the adapter's Results: Spec takes every call to succeed, SpecFail lets each fail
Succeeds == {TRUE}
MayFail == BOOLEAN

Step(t) ==
    \/ CallRefresh(t)
    \/ CallInit(t)
    \/ InitCheck(t)
    \/ GenDiffCur(t)
    \/ GenDiffAdd(t)
    \/ RefreshLockMap(t)
    \/ RefreshLockTimer(t)
    \/ RefreshReturn(t)
    \/ InitLockMap(t)
    \/ InitLockTimer(t)
    \/ InitCatchUp(t)

\* concurrent calls, every adapter call succeeding
Next ==
    \/ \E uid \in Uids : EditProfile(uid, CoreItems, MaxEdits)
    \/ \E t \in Threads : Step(t)
    \/ \E t \in Threads : InitNow(t, CoreTimes)
    \/ \E t \in Threads : RefreshApply(t, Succeeds)

Spec == Init /\ [][Next]_vars

\* the steps of refresh() called on its own
RefreshStep(t) ==
    \/ CallRefresh(t)
    \/ GenDiffCur(t)
    \/ GenDiffAdd(t)
    \/ RefreshLockMap(t)
    \/ RefreshLockTimer(t)
    \/ RefreshReturn(t)

\* concurrent refresh() calls, adapter calls failing at will
NextFail ==
    \/ \E uid \in Uids : EditProfile(uid, CoreItems, MaxRunEdits)
    \/ \E t \in Threads : RefreshStep(t)
    \/ \E t \in Threads : RefreshApply(t, MayFail)

SpecFail == Init /\ [][NextFail]_vars

\* concurrent init() and refresh() calls, adapter calls failing at will
NextInitFail ==
    \/ \E uid \in Uids : EditProfile(uid, CoreItems, MaxRunEdits)
    \/ \E t \in Threads : Step(t)
    \/ \E t \in Threads : InitNow(t, CoreTimes)
    \/ \E t \in Threads : RefreshApply(t, MayFail)

SpecInitFail == Init /\ [][NextInitFail]_vars

\* the steps a thread takes inside a call it has made
Proceed(t) ==
    \/ InitCheck(t)
    \/ GenDiffCur(t)
    \/ GenDiffAdd(t)
    \/ RefreshLockMap(t)
    \/ RefreshLockTimer(t)
    \/ RefreshApply(t, Succeeds)
    \/ RefreshReturn(t)
    \/ InitNow(t, CoreTimes)
    \/ InitLockMap(t)
    \/ InitLockTimer(t)
    \/ InitCatchUp(t)

\* concurrent init() and refresh() calls over a profile list that stays as it is
NextLive ==
    \/ \E t \in Threads : CallRefresh(t)
    \/ \E t \in Threads : CallInit(t)
    \/ \E t \in Threads : Proceed(t)

\* a thread inside a call keeps being scheduled, and a thread waiting for a
\* mutex that is free again and again gets it (parking_lot's eventual fairness)
SpecLive == Init /\ [][NextLive]_vars /\ \A t \in Threads : SF_vars(Proceed(t))

\* concurrent refresh() calls and the jobs' executions
NextRun ==
    \/ \E uid \in Uids : EditProfile(uid, CoreItems, MaxRunEdits)
    \/ \E t \in Threads : RefreshStep(t)
    \/ \E t \in Threads : RefreshApply(t, Succeeds)
    \/ \E j \in delay_timer : Fire(j)
    \/ \E r \in running : TaskUpdateProfile(r)
    \/ \E r \in running : TaskUpdateConfig(r)

SpecRun == Init /\ [][NextRun]_vars

\* one call at a time, over every kind of profile item and clock value
NextSeq ==
    \/ \E uid \in Uids : EditProfile(uid, PrfItems, MaxSeqEdits)
    \/ Step(ThreadOrder[1])
    \/ InitNow(ThreadOrder[1], Times)
    \/ RefreshApply(ThreadOrder[1], Succeeds)

SpecSeq == InitSeq /\ [][NextSeq]_vars

(* ------------------------------- claims ------------------------------- *)

AllReturned == \A t \in Threads : pc[t] = "idle"

\* the task ids timer_map refers to
MapTids == {timer_map[u][1] : u \in DOMAIN timer_map}

NoOrphanJob == \A j \in delay_timer : j.tid \in MapTids
NoDuplicateJob == \A j, k \in delay_timer : j.uid = k.uid => j = k

\* C1: once every refresh() call has returned, no adapter call having failed,
\* every job of delay_timer is referenced by a timer_map entry and no uid has
\* more than one job: no orphaned and no duplicate jobs, however the calls
\* interleaved.
C1_ConcurrentRefreshSafe ==
    (AllReturned /\ ~adapter_failed) => (NoOrphanJob /\ NoDuplicateJob)

\* C2: the allocator starts at 1 and never decreases; every Add mutation is
\* given an id greater than every id issued before it, and no two Add mutations
\* are given the same id (the ids issued are as many as the Add mutations), in
\* one reconciliation or in concurrent ones, also after an id's job was deleted.
C2_IdsNeverReused ==
    /\ timer_count = FirstTaskID
    /\ [][/\ timer_count' >= timer_count
          /\ \A new \in issued' \ issued : \A old \in issued : new > old
          /\ Cardinality(issued') = n_adds']_vars

\* C2, its case: the first id was issued, registered and deleted, and the next
\* Add was given the second id although the first is free.
C2_Witness ==
    /\ AllReturned
    /\ n_adds = 2
    /\ \E u \in DOMAIN timer_map :
          /\ DOMAIN timer_map = {u}
          /\ timer_map[u][1] = FirstTaskID + 1
          /\ delay_timer = {[tid |-> FirstTaskID + 1, uid |-> u, minutes |-> timer_map[u][2]]}

\* the profile uid of the list its is one to schedule: it has an interval > 0
Scheduled(its, uid) ==
    /\ uid \in DOMAIN its
    /\ IsSome(its[uid].option)
    /\ IsSome(Unwrap(its[uid].option).update_interval)
    /\ Unwrap(Unwrap(its[uid].option).update_interval) > 0

IntervalOf(its, uid) == Unwrap(Unwrap(its[uid].option).update_interval)

\* thread t is at the end of a refresh() it ran alone
SoloRefreshDone(t) == pc[t] = "apply" /\ diff_map[t] = EmptyMap /\ alone[t]

\* C3: when a refresh() that ran alone is done, timer_map has an entry for every
\* profile of the list it read whose update interval is positive, with that
\* interval, and no entry for any other uid (absent, no option, no interval or
\* interval zero).
C3_SoloRefreshSyncs ==
    \A t \in Threads : SoloRefreshDone(t) =>
        \A uid \in Uids :
            IF Scheduled(snap[t], uid)
            THEN uid \in DOMAIN timer_map /\ timer_map[uid][2] = IntervalOf(snap[t], uid)
            ELSE uid \notin DOMAIN timer_map

\* C3, its case: a refresh() alone ended with an entry kept for one profile and
\* the entry of a profile whose interval is now zero removed.
C3_Witness ==
    \E t \in Threads : \E u, w \in Uids :
        /\ SoloRefreshDone(t)
        /\ u \in DOMAIN timer_map
        /\ w \in DOMAIN snap[t]
        /\ IsSome(snap[t][w].option)
        /\ Unwrap(snap[t][w].option).update_interval = Some(0)
        /\ \E j \in delay_timer : j.uid = u
        /\ n_adds = 2
        /\ delay_timer = {[tid |-> timer_map[u][1], uid |-> u, minutes |-> timer_map[u][2]]}

(* ------------------- gen_diff on its own: SpecDiff --------------------- *)

\* largest task id of the registries gen_diff is tried on
MaxDiffTid == 2

\* the registries: uid -> <<tid, interval>>, the tids distinct
DiffRegistries ==
    LET All == UNION {[D -> (1..MaxDiffTid) \X (1..MaxInterval)] : D \in SUBSET Uids}
    IN {m \in All : \A u, w \in DOMAIN m : m[u][1] = m[w][1] => u = w}

\* a thread has entered refresh() with any registry in place, every id up to
\* MaxDiffTid issued, and any profile list
InitDiff ==
    /\ items \in Configs(PrfItems)
    /\ timer_map \in DiffRegistries
    /\ delay_timer = {[tid |-> timer_map[u][1], uid |-> u, minutes |-> timer_map[u][2]] :
                        u \in DOMAIN timer_map}
    /\ timer_count = MaxDiffTid + 1
    /\ initialized = FALSE
    /\ lock = [l \in LockNames |-> NoThread]
    /\ pc = [t \in Threads |-> IF t = ThreadOrder[1] THEN "gen_diff" ELSE "idle"]
    /\ call = [t \in Threads |-> IF t = ThreadOrder[1] THEN "refresh" ELSE "none"]
    /\ new_map = [t \in Threads |-> EmptyMap]
    /\ diff_map = [t \in Threads |-> EmptyMap]
    /\ cur_timestamp = 0
    /\ calls = 1
    /\ edits = 0
    /\ snap = [t \in Threads |-> EmptyMap]
    /\ alone = [t \in Threads |-> t = ThreadOrder[1]]
    /\ settled = FALSE
    /\ since_settled = 0
    /\ issued = 1..MaxDiffTid
    /\ n_adds = MaxDiffTid
    /\ adapter_failed = FALSE
    /\ init_passes = 0
    /\ init_skips = 0
    /\ advanced = {}
    /\ running = {}
    /\ runs = 0
    /\ caught_up = FALSE
    /\ batch = [t \in Threads |-> EmptyMap]
    /\ failed = [t \in Threads |-> {}]
    /\ add_failed = FALSE
    /\ profile_oks = 0
    /\ profile_errs = 0
    /\ config_calls = 0

NextDiff ==
    \/ GenDiffCur(ThreadOrder[1])
    \/ GenDiffAdd(ThreadOrder[1])

SpecDiff == InitDiff /\ [][NextDiff]_vars

\* thread t has its diff map complete and nothing of it applied
DiffReady(t) == pc[t] = "refresh_lock_map"

\* C4: for every registry and profile list, gen_diff's map holds Del(task_id)
\* exactly for the uids of the registry that are absent or without a positive
\* interval, Mod(task_id, new interval) exactly for the uids in both whose
\* interval differs, each with the registry's task id, Add(new id, interval)
\* exactly for the scheduled uids the registry lacks, the new ids distinct and
\* drawn from the counter, and nothing for any other uid.
C4_DiffClassifies ==
    \A t \in Threads : DiffReady(t) =>
        LET diff == diff_map[t] IN
        /\ \A uid \in Uids :
            LET inReg == uid \in DOMAIN timer_map
                want == Scheduled(snap[t], uid)
            IN /\ uid \in DelUids(diff) <=> (inReg /\ ~want)
               /\ uid \in ModUids(diff) <=>
                    (inReg /\ want /\ IntervalOf(snap[t], uid) # timer_map[uid][2])
               /\ uid \in AddUids(diff) <=> (~inReg /\ want)
               /\ uid \in DOMAIN diff <=> uid \in DelUids(diff) \cup ModUids(diff) \cup AddUids(diff)
               /\ uid \in DelUids(diff) => diff[uid] = Del(timer_map[uid][1])
               /\ uid \in ModUids(diff) =>
                    diff[uid] = Mod(timer_map[uid][1], IntervalOf(snap[t], uid))
               /\ uid \in AddUids(diff) =>
                    /\ Len(diff[uid]) = 3
                    /\ diff[uid][3] = IntervalOf(snap[t], uid)
                    /\ diff[uid][2] \in (timer_count - Cardinality(AddUids(diff)))..(timer_count - 1)
                    /\ diff[uid][2] \notin MapTids
        /\ \A u, w \in AddUids(diff) : diff[u][2] = diff[w][2] => u = w

\* C4, its case: one diff map with a Del for a profile whose interval became
\* zero and a Mod for a profile whose interval changed.
C4_Witness ==
    \E t \in Threads : \E u, w \in Uids :
        /\ DiffReady(t)
        /\ u \in DelUids(diff_map[t])
        /\ u \in DOMAIN snap[t]
        /\ w \in ModUids(diff_map[t])

(* ----------------------- claims, continued ---------------------------- *)

\* C5: once a refresh() that ran alone has returned and while the profile list
\* stays as that refresh read it, every gen_diff produces an empty diff map and
\* no step changes timer_map, timer_count or delay_timer, for as many refresh()
\* calls as follow.
C5_RefreshIdempotent ==
    [][settled =>
          /\ \A t \in Threads : diff_map'[t] = EmptyMap
          /\ settled' => /\ timer_map' = timer_map
                         /\ timer_count' = timer_count
                         /\ delay_timer' = delay_timer]_vars

\* C5, its case: two more refresh() calls returned after the one that settled a
\* non-empty schedule.
C5_Witness == settled /\ since_settled = 2 /\ timer_map # EmptyMap

\* C6: a uid's task id in timer_map never changes while the uid keeps its entry.
C6_TaskIdStable ==
    [][\A uid \in DOMAIN timer_map \cap DOMAIN timer_map' :
            timer_map'[uid][1] = timer_map[uid][1]]_vars

\* C7: `initialized`, once true, stays true; at most one init() call finds it
\* false and goes on to reconcile and scan; every init() call that gets past
\* the lock after that returns at once, changing nothing of timer_map,
\* timer_count, delay_timer, the diff maps or the tasks advanced.
C7_InitOnce ==
    [][/\ initialized => initialized'
       /\ init_passes' <= 1
       /\ \A t \in Threads :
            (pc[t] = "init" /\ pc'[t] # "init" /\ init_passes >= 1) =>
                /\ pc'[t] = "idle"
                /\ initialized
                /\ UNCHANGED <<timer_map, timer_count, delay_timer, diff_map, advanced>>]_vars

\* C7, its case: a second init() call was made while the first was still
\* inside, and has returned without doing anything.
C7_Witness ==
    /\ init_passes = 1
    /\ init_skips >= 1
    /\ initialized
    /\ timer_map # EmptyMap

\* whole minutes from `updated` to now
ElapsedMinutes(its, uid, now) == (now - Unwrap(its[uid].updated)) \div SecsPerMin

\* the uid's task is to be advanced: interval positive, `updated` known, a
\* registry entry, and at least the interval elapsed
ToAdvance(uid) ==
    /\ Scheduled(items, uid)
    /\ IsSome(items[uid].updated)
    /\ uid \in DOMAIN timer_map
    /\ ElapsedMinutes(items, uid, cur_timestamp) >= IntervalOf(items, uid)

\* C8: init's scan calls advance_task on exactly the task ids of the profiles
\* that have a positive interval, an `updated` stamp, a timer_map entry, and for
\* which now - updated is at least the interval.
C8_CatchUpAdvances ==
    [][\A t \in Threads :
          (pc[t] = "catch_up" /\ pc'[t] = "idle") =>
              advanced' = {timer_map[uid][1] : uid \in {u \in Uids : ToAdvance(u)}}]_vars

\* C8, its case: after the scan, a profile whose interval elapsed to the second
\* was advanced and a profile short of its interval was not.
C8_Witness ==
    /\ initialized
    /\ \E u, w \in DOMAIN timer_map \cap DOMAIN items :
          /\ Scheduled(items, u) /\ IsSome(items[u].updated)
          /\ Scheduled(items, w) /\ IsSome(items[w].updated)
          /\ cur_timestamp - Unwrap(items[u].updated) = IntervalOf(items, u) * SecsPerMin
          /\ cur_timestamp - Unwrap(items[w].updated) < IntervalOf(items, w) * SecsPerMin
          /\ timer_map[u][1] \in advanced
          /\ timer_map[w][1] \notin advanced

\* C9: when gen_diff finds one uid of timer_map gone from the profiles and
\* another with its interval unchanged, the diff map holds a Del with the gone
\* uid's task id and nothing for the other; and applying a Del leaves every
\* other uid's entry, and the jobs under every other task id, as they were.
C9_OnlyChangedTouched ==
    [][\A t \in Threads :
          /\ (pc[t] = "gen_diff_count" /\ pc'[t] = "refresh_lock_map") =>
                \A a, b \in DOMAIN timer_map :
                    (/\ a \notin DOMAIN new_map[t]
                     /\ b \in DOMAIN new_map[t]
                     /\ new_map[t][b] = timer_map[b][2]) =>
                        /\ diff_map'[t][a] = Del(timer_map[a][1])
                        /\ b \notin DOMAIN diff_map'[t]
                        /\ DelUids(diff_map'[t]) = DOMAIN timer_map \ DOMAIN new_map[t]
          /\ (pc[t] = "apply" /\ diff_map'[t] # diff_map[t]) =>
                \A a \in DelUids(diff_map[t]) \ DOMAIN diff_map'[t] :
                    \A b \in DOMAIN timer_map \ {a} :
                        /\ b \in DOMAIN timer_map'
                        /\ timer_map'[b] = timer_map[b]
                        /\ {j \in delay_timer' : j.tid = timer_map[b][1]}
                              = {j \in delay_timer : j.tid = timer_map[b][1]}]_vars

\* C9, its case: a refresh() is done that deleted one profile's task and left
\* the other profile's entry and job in place.
C9_Witness ==
    \E t \in Threads : \E b \in Uids :
        /\ pc[t] = "apply" /\ diff_map[t] = EmptyMap
        /\ DOMAIN snap[t] = {b}
        /\ DOMAIN timer_map = {b}
        /\ n_adds = 2
        /\ delay_timer = {[tid |-> timer_map[b][1], uid |-> b, minutes |-> timer_map[b][2]]}

\* C10: once a profile is off the schedule (removed, or without a positive
\* interval), every refresh() call has returned and one of them read the profile
\* list as it now is, no execution of a job body bound to that uid starts.
C10_DeleteStopsExecutions ==
    [][\A uid \in Uids :
          (AllReturned /\ caught_up /\ ~Scheduled(items, uid)) =>
              ~\E r \in running' \ running : r.uid = uid]_vars

\* C11: no two executions of the job body for the same uid run at the same time,
\* whatever reconciliations and firings came before.
C11_OneExecutionPerUid ==
    \A r, q \in running : r.uid = q.uid => r = q

\* C12: a step of a job body (its start, the return of update_profile, Ok or
\* Err, the return of update_config, Ok or Err) leaves timer_map, timer_count
\* and delay_timer as they were; and a task id leaves delay_timer only in the
\* step in which a refresh() applies a Del carrying that id.
C12_FailuresKeepSchedule ==
    [][/\ running' # running => UNCHANGED <<timer_map, timer_count, delay_timer>>
       /\ \A j \in delay_timer :
            (\A k \in delay_timer' : k.tid # j.tid) =>
                \E t \in Threads :
                    /\ pc[t] = "apply"
                    /\ j.uid \in DOMAIN diff_map[t] \ DOMAIN diff_map'[t]
                    /\ diff_map[t][j.uid] = Del(j.tid)]_vars

\* C12, its case: MaxRuns executions in a row ended with update_profile
\* returning Err, and the job is still registered and in timer_map.
C12_Witness ==
    /\ profile_errs = MaxRuns
    /\ running = {}
    /\ AllReturned
    /\ \E uid \in DOMAIN timer_map :
          /\ DOMAIN timer_map = {uid}
          /\ delay_timer = {[tid |-> timer_map[uid][1], uid |-> uid,
                              minutes |-> timer_map[uid][2]]}

\* the mutation the batch holds for uid has taken effect on timer_map
InRegistry(uid, diff) ==
    IF diff[1] = "Del" THEN uid \notin DOMAIN timer_map
    ELSE uid \in DOMAIN timer_map /\ timer_map[uid] = <<diff[2], diff[3]>>

\* the mutation the batch holds for uid has taken effect on delay_timer
InAdapter(uid, diff) ==
    LET jobs == {j \in delay_timer : j.tid = diff[2]}
    IN IF diff[1] = "Del" THEN jobs = {}
       ELSE jobs = {[tid |-> diff[2], uid |-> uid, minutes |-> diff[3]]}

\* C13: whatever adapter call fails, a turn of refresh()'s loop still applies
\* its mutation to timer_map and leaves the rest of the diff map to be applied,
\* and refresh() leaves the loop only with the diff map empty, returning Ok;
\* when the loop is over every mutation of the batch is in timer_map and every
\* mutation whose own adapter calls succeeded is in delay_timer.
C13_FailureKeepsBatch ==
    /\ [](\A t \in Threads :
            (pc[t] = "apply" /\ diff_map[t] = EmptyMap) =>
                \A uid \in DOMAIN batch[t] :
                    /\ InRegistry(uid, batch[t][uid])
                    /\ uid \notin failed[t] => InAdapter(uid, batch[t][uid]))
    /\ [][\A t \in Threads :
            /\ (pc[t] = "apply" /\ diff_map'[t] # diff_map[t]) =>
                  /\ pc'[t] = "apply"
                  /\ \E uid \in DOMAIN diff_map[t] :
                        /\ diff_map'[t] = Remove(diff_map[t], uid)
                        /\ IF diff_map[t][uid][1] = "Del" THEN uid \notin DOMAIN timer_map'
                           ELSE /\ uid \in DOMAIN timer_map'
                                /\ timer_map'[uid] = <<diff_map[t][uid][2], diff_map[t][uid][3]>>
            /\ (pc[t] = "apply" /\ pc'[t] # "apply") =>
                  /\ diff_map[t] = EmptyMap
                  /\ pc'[t] = "idle"]_vars

\* C13, its case: a refresh() is through a batch of two mutations, the adapter
\* call of one failed and the other is in timer_map and delay_timer.
C13_Witness ==
    \E t \in Threads : \E u, w \in DOMAIN batch[t] :
        /\ pc[t] = "apply" /\ diff_map[t] = EmptyMap
        /\ u \in failed[t]
        /\ w \notin failed[t]
        /\ InRegistry(w, batch[t][w]) /\ InAdapter(w, batch[t][w])
        /\ batch[t][w][1] = "Add"

\* C14: as long as no add_task call has returned Err, every timer_map entry
\* (task id, interval) has a job in delay_timer under that task id repeating
\* every `interval` minutes, however init() and refresh() calls interleave and
\* whatever remove_task returns.
C14_CadenceAgrees ==
    ~add_failed =>
        \A uid \in DOMAIN timer_map :
            \E j \in delay_timer : /\ j.tid = timer_map[uid][1]
                                   /\ j.minutes = timer_map[uid][2]

\* C14, its case: init() and the refresh() calls have returned, a Mod changed a
\* profile's interval with remove_task returning Err, and the entry has its job.
C14_Witness ==
    /\ AllReturned
    /\ initialized
    /\ adapter_failed /\ ~add_failed
    /\ \E uid \in DOMAIN timer_map :
          /\ Scheduled(items, uid)
          /\ timer_map[uid][2] = IntervalOf(items, uid)
          /\ [tid |-> timer_map[uid][1], uid |-> uid, minutes |-> timer_map[uid][2]]
                \in delay_timer
          /\ \E j \in delay_timer : j.tid = timer_map[uid][1] /\ j.minutes # timer_map[uid][2]

\* thread t has read timer_map for its diff and has not finished applying it
Reconciling(t) ==
    pc[t] \in {"gen_diff_count", "refresh_lock_map", "refresh_lock_timer", "apply"}

\* C15: no two refresh() calls are in the loop applying mutations at the same
\* time, and from the moment a refresh() reads timer_map to compute its diff
\* until it has applied that diff no other thread holds timer_map (to compute a
\* diff, to apply one, or for init's scan).
C15_ReconciliationsSerialized ==
    \A t, o \in Threads :
        t # o =>
            /\ ~(pc[t] = "apply" /\ pc[o] = "apply")
            /\ Reconciling(t) => lock["timer_map"] # o

\* uid has a timer_map entry and no job under the entry's task id
Drifted(uid) ==
    /\ uid \in DOMAIN timer_map
    /\ \A j \in delay_timer : j.tid # timer_map[uid][1]

\* the profiles give uid the interval its timer_map entry has
SameInterval(its, uid) ==
    Scheduled(its, uid) /\ IntervalOf(its, uid) = timer_map[uid][2]

\* C16: the turn of refresh()'s loop that applies Add(id, interval) for a uid
\* with add_task returning Err leaves the entry (id, interval) in timer_map and
\* no job under id; and while a uid has an entry without a job, the profiles
\* give it the entry's interval and no diff computed earlier is waiting to be
\* applied for it, every step leaves it so: gen_diff puts no mutation for it
\* in any diff map, and the entry stays without a job.
C16_AddFailureDrifts ==
    [][/\ \A t \in Threads :
            (pc[t] = "apply" /\ diff_map'[t] # diff_map[t]) =>
                \A uid \in AddUids(diff_map[t]) \ DOMAIN diff_map'[t] :
                    delay_timer' = delay_timer =>
                        /\ Drifted(uid)'
                        /\ timer_map'[uid] = <<diff_map[t][uid][2], diff_map[t][uid][3]>>
       /\ \A uid \in Uids :
            (/\ Drifted(uid)
             /\ SameInterval(items, uid)
             /\ items' = items
             /\ \A t \in Threads : uid \notin DOMAIN diff_map[t]) =>
                /\ Drifted(uid)'
                /\ timer_map'[uid] = timer_map[uid]
                /\ \A t \in Threads : uid \notin DOMAIN diff_map'[t]]_vars

\* C16, its case: add_task failed for a profile's Add, every call is over, a
\* refresh() has run and returned since with the profiles unchanged, and the
\* entry is still without a job.
C16_Witness ==
    /\ AllReturned
    /\ add_failed
    /\ settled /\ since_settled >= 1
    /\ calls = MaxCalls
    /\ \E uid \in Uids : Drifted(uid) /\ SameInterval(items, uid)

\* the executions of the job body under the task id tid
BodiesOf(R, tid) == {q \in R : q.tid = tid}

\* C17: job bodies have called update_config exactly as many times as
\* update_profile has returned Ok to them; the step in which update_config is
\* called is the one in which that body's update_profile returns Ok; when
\* update_profile returns Err the body ends without calling update_config; and
\* when update_config returns, Ok or Err, the body ends.
C17_ConfigAfterProfileOk ==
    /\ [](config_calls = profile_oks)
    /\ [][/\ config_calls' # config_calls =>
               /\ config_calls' = config_calls + 1
               /\ profile_oks' = profile_oks + 1
               /\ \E r \in running :
                     /\ r.step = "update_profile"
                     /\ running' = (running \ {r}) \cup {[r EXCEPT !.step = "update_config"]}
          /\ profile_errs' # profile_errs =>
               /\ config_calls' = config_calls
               /\ \E r \in running :
                     /\ r.step = "update_profile"
                     /\ running' = running \ {r}
                     /\ BodiesOf(running', r.tid) = {}
          /\ \A r \in running :
               (r.step = "update_config" /\ r \notin running') =>
                   /\ BodiesOf(running', r.tid) = {}
                   /\ UNCHANGED <<config_calls, profile_oks, profile_errs>>]_vars

\* C17, its case: of two executions that have ended, one had update_profile
\* return Err and one Ok, and update_config was called once.
C17_Witness ==
    /\ running = {}
    /\ runs = 2
    /\ profile_oks = 1
    /\ profile_errs = 1
    /\ config_calls = 1

\* the mutexes thread t holds
HeldBy(t) == {l \in LockNames : lock[l] = t}

\* C18: a thread that is in no call holds no mutex, and every init() or
\* refresh() call that was made returns, however the calls interleave.
C18_NoDeadlock ==
    /\ [](\A t \in Threads : pc[t] = "idle" => HeldBy(t) = {})
    /\ \A t \in Threads : (pc[t] # "idle") ~> (pc[t] = "idle")

\* C18, its case: init(), holding `initialized`, waits for timer_map while a
\* refresh() on the other thread holds timer_map and delay_timer.
C18_Witness ==
    \E t, o \in Threads :
        /\ pc[t] \in {"gen_diff", "refresh_lock_map", "init_lock_map"}
        /\ HeldBy(t) = {"initialized"}
        /\ pc[o] = "apply"
        /\ HeldBy(o) = {"timer_map", "delay_timer"}

\* C19: gen_diff's first part (lock timer_map, read the profiles, first loop)
\* changes none of timer_map, delay_timer and timer_count; its second part
\* leaves timer_map and delay_timer as they were and advances timer_count by the
\* number of Add mutations in the diff map it returns.
C19_GenDiffOnlyCounts ==
    [][\A t \in Threads :
          /\ (pc[t] = "gen_diff" /\ pc'[t] = "gen_diff_count") =>
                UNCHANGED <<timer_map, delay_timer, timer_count>>
          /\ (pc[t] = "gen_diff_count" /\ pc'[t] = "refresh_lock_map") =>
                /\ UNCHANGED <<timer_map, delay_timer>>
                /\ timer_count' = timer_count + Cardinality(AddUids(diff_map'[t]))]_vars

\* C19, its case: gen_diff returned one Add and one Del or Mod, and the counter
\* moved by one.
C19_Witness ==
    \E t \in Threads :
        /\ DiffReady(t)
        /\ Cardinality(AddUids(diff_map[t])) = 1
        /\ DelUids(diff_map[t]) \cup ModUids(diff_map[t]) # {}
        /\ timer_count = MaxDiffTid + 2
        /\ timer_map # EmptyMap
        /\ delay_timer # {}

====
